---- MODULE Spec2Model ----
(***************************************************************************)
(* Inventory service (src/main.js; src/unnamed/part_001 is the same        *)
(* handlers plus Swagger annotations).  An in-memory array INVENTORY, a    *)
(* cache directory of photo files, and Express handlers.  Node runs every  *)
(* callback to completion, so one action of this model is one callback:    *)
(* the body-parsing middleware (multer / express.json) finishing for a     *)
(* request, the route handler itself, or the completion of res.sendFile.   *)
(* Request bodies are taken to be objects (the middleware populated them). *)
(***************************************************************************)
EXTENDS Integers, Sequences, FiniteSets, TLC

\* ---------------------------------------------------------------- bounds
MaxItems == 2       \* item ids generated by POST /register
MaxFiles == 1       \* file names generated by multer
MaxInFlight == 1    \* requests whose middleware or sendFile is pending

\* ------------------------------------------------------------- JS values
\* JS null, as stored in photo_path / photo_link
Null == 0

Undefined == [type |-> "undefined", val |-> ""]
Str(s) == [type |-> "string", val |-> s]
Num(s) == [type |-> "number", val |-> s]

\* JS truthiness, as used by `!x`, `if (x)` and `x || ''`
Truthy(v) ==
  CASE v.type = "string" -> v.val # ""
    [] v.type = "number" -> v.val # "0"
    [] OTHER -> FALSE

\* text fields multer puts in req.body for multipart/form-data
FormVals == {Undefined, Str(""), Str("a")}
\* values express.json() can put in a field of req.body
JsonVals == {Undefined, Str(""), Str("b"), Num("5")}
JsonDescVals == {Undefined, Str(""), Str("d")}
FormDescVals == {Undefined, Str("d")}
\* has_photo field of the urlencoded search form
HasPhotoVals == {Undefined, Str("on"), Str("off")}

Ids == 1..MaxItems
Files == 1..MaxFiles
Slots == 1..MaxInFlight

VARIABLES
  INVENTORY,   \* the array of items
  files,       \* names of the files in CACHE_PATH
  ids,         \* number of item ids generated so far
  names,       \* number of file names generated so far
  reqs,        \* per slot: a request between two of its callbacks
  last,        \* the response most recently written
  registered,  \* history: ids returned by 201 responses, in order
  deleted      \* history: ids for which DELETE answered 200

vars == <<INVENTORY, files, ids, names, reqs, last, registered, deleted>>

\* uuidv4(): a token no earlier call returned; item ids and file names both
\* come from it and are never compared with each other, so each kind is
\* numbered on its own, n being the number of tokens of the kind so far
uuidv4(n) == n + 1

\* Array.prototype.find on id: index of the first match, 0 for undefined
find(inv, id) ==
  IF \E i \in 1..Len(inv) : inv[i].id = id
  THEN CHOOSE i \in 1..Len(inv) :
         inv[i].id = id /\ \A j \in 1..(i-1) : inv[j].id # id
  ELSE 0

\* INVENTORY.filter(i => i.id !== id)
filter(inv, id) == SelectSeq(inv, LAMBDA i : i.id # id)

\* `/inventory/${id}/photo` (named by the id it points to) or null
photo_link(item) == IF item.photo_path # Null THEN item.id ELSE Null

\* {...item, photo_link}
withLink(item) == [item |-> item, photo_link |-> photo_link(item)]

\* INVENTORY.map(item => ({...item, photo_link}))
map(inv) == [i \in 1..Len(inv) |-> withLink(inv[i])]

\* fs.unlinkSync: removes the file, or throws (missing, or not removable)
unlinkSync(fs, f, eperm) ==
  IF f \in fs /\ ~eperm
  THEN [files |-> fs \ {f}, threw |-> FALSE]
  ELSE [files |-> fs, threw |-> TRUE]

\* fs.existsSync
existsSync(fs, f) == f \in fs

\* a free slot.  A pending request keeps what its earlier callback fixed:
\* req.file, or the id and file of a started sendFile; the fields of its
\* body are read by the handler and are drawn there.  rebound is history:
\* DELETE has bound INVENTORY to a new array since the request arrived
Idle == [pc |-> "idle", op |-> "none", id |-> 0, file |-> Null, rebound |-> FALSE]

NoResponse == [op |-> "none", id |-> 0, status |-> 0, items |-> <<>>,
               updated |-> <<>>, photo_link |-> Null, has_link |-> FALSE,
               file |-> Null, threw |-> FALSE, raced |-> FALSE]

\* what `last` keeps of a response: everything but the items' contents.
\* Beside the response it notes, as history, the file the request carried
\* or was served (file), whether an unlinkSync threw (threw), and whether
\* INVENTORY was rebound while the request was pending (raced)
Logged(r) ==
  [r EXCEPT !.items = [i \in DOMAIN r.items |-> r.items[i].item.id],
            !.updated = [i \in DOMAIN r.updated |-> r.updated[i].id]]

Response(op, id, status) == [NoResponse EXCEPT !.op = op, !.id = id, !.status = status]

\* ------------------------------------------------------------ middleware
\* multer.diskStorage + upload.single('photo'): a photo part is written to
\* CACHE_PATH under a fresh uuid (the extension is kept, not modelled);
\* req.file is then set, and is undefined without a photo part
diskStorage(fs, n, hasFile) ==
  IF hasFile
  THEN [files |-> fs \cup {uuidv4(n)}, names |-> uuidv4(n), file |-> uuidv4(n)]
  ELSE [files |-> fs, names |-> n, file |-> Null]

\* INVENTORY = INVENTORY.filter(...) binds INVENTORY to a new array: the
\* requests pending at that moment arrived under the old one (history,
\* kept where track is set)
rebind(rs, track) ==
  [s \in DOMAIN rs |->
     IF track /\ rs[s].pc = "handler" THEN [rs[s] EXCEPT !.rebound = TRUE] ELSE rs[s]]

\* (variant: the handler writes into the array it captured when the request
\* arrived; once INVENTORY names another array the write is lost)
commitDetached(cur, written, rebound) == IF rebound THEN cur ELSE written

\* the array INVENTORY names after a handler: the handler reads the name
\* INVENTORY when it runs, so its writes land in the current array
commit(cur, written, rebound) == written

\* ---------------------------------------------------------- handler cores
\* (variant: the id is derived from the array length)
newItemIdByLength(inv, n) == Len(inv) + 1

\* id: uuidv4() of the new item
newItemId(inv, n) == uuidv4(n)

\* (variant: only a missing inventory_name is rejected, '' is accepted)
registerItemMissingOnly(inv, n, name, desc, file) ==
  IF name = Undefined
  THEN [inv |-> inv, ids |-> n, resp |-> Response("register", 0, 400)]
  ELSE LET newItem == [id |-> newItemId(inv, n),
                       inventory_name |-> name,
                       description |-> IF Truthy(desc) THEN desc ELSE Str(""),
                       photo_path |-> file]
       IN [inv |-> Append(inv, newItem),
           ids |-> uuidv4(n),
           resp |-> [Response("register", newItem.id, 201)
                       EXCEPT !.photo_link = photo_link(newItem)]]

\* (variant: the new item is put at the front, INVENTORY.unshift)
registerItemUnshift(inv, n, name, desc, file) ==
  IF ~Truthy(name)
  THEN [inv |-> inv, ids |-> n, resp |-> Response("register", 0, 400)]
  ELSE LET newItem == [id |-> newItemId(inv, n),
                       inventory_name |-> name,
                       description |-> IF Truthy(desc) THEN desc ELSE Str(""),
                       photo_path |-> file]
       IN [inv |-> <<newItem>> \o inv,
           ids |-> uuidv4(n),
           resp |-> [Response("register", newItem.id, 201)
                       EXCEPT !.photo_link = photo_link(newItem)]]

\* app.post('/register') after upload.single
registerItem(inv, n, name, desc, file) ==
  IF ~Truthy(name)
  THEN [inv |-> inv, ids |-> n, resp |-> Response("register", 0, 400)]
  ELSE LET newItem == [id |-> newItemId(inv, n),
                       inventory_name |-> name,
                       description |-> IF Truthy(desc) THEN desc ELSE Str(""),
                       photo_path |-> file]
       IN [inv |-> Append(inv, newItem),
           ids |-> uuidv4(n),
           resp |-> [Response("register", newItem.id, 201)
                       EXCEPT !.photo_link = photo_link(newItem)]]

\* app.get('/inventory')
listItems(inv) == [Response("list", 0, 200) EXCEPT !.items = map(inv)]

\* app.get('/inventory/:id')
getItem(inv, id) ==
  LET k == find(inv, id)
  IN IF k = 0 THEN Response("get", id, 404)
     ELSE [Response("get", id, 200) EXCEPT !.items = <<withLink(inv[k])>>]

\* (variant: a field is written whenever the body carries it, '' included)
updateItemPresent(inv, id, name, desc) ==
  LET k == find(inv, id)
  IN IF k = 0
     THEN [inv |-> inv, resp |-> Response("update", id, 404)]
     ELSE LET item == [inv[k] EXCEPT
                         !.inventory_name = IF name # Undefined THEN name ELSE @,
                         !.description = IF desc # Undefined THEN desc ELSE @]
          IN [inv |-> [inv EXCEPT ![k] = item],
              resp |-> [Response("update", id, 200) EXCEPT !.updated = <<item>>]]

\* app.put('/inventory/:id') after express.json()
updateItem(inv, id, name, desc) ==
  LET k == find(inv, id)
  IN IF k = 0
     THEN [inv |-> inv, resp |-> Response("update", id, 404)]
     ELSE LET item == [inv[k] EXCEPT
                         !.inventory_name = IF Truthy(name) THEN name ELSE @,
                         !.description = IF Truthy(desc) THEN desc ELSE @]
          IN [inv |-> [inv EXCEPT ![k] = item],
              resp |-> [Response("update", id, 200) EXCEPT !.updated = <<item>>]]

\* (variant: the file is unlinked first and a throw is answered with 500)
deleteItemStrict(inv, fs, id, eperm) ==
  LET k == find(inv, id)
      inv2 == filter(inv, id)
  IN IF k = 0
     THEN [inv |-> inv2, files |-> fs, resp |-> Response("delete", id, 404)]
     ELSE LET u == IF inv[k].photo_path # Null
                   THEN unlinkSync(fs, inv[k].photo_path, eperm)
                   ELSE [files |-> fs, threw |-> FALSE]
          IN IF u.threw
             THEN [inv |-> inv, files |-> fs,
                   resp |-> [Response("delete", id, 500) EXCEPT !.threw = TRUE]]
             ELSE [inv |-> inv2, files |-> u.files, resp |-> Response("delete", id, 200)]

\* app.delete('/inventory/:id')
deleteItem(inv, fs, id, eperm) ==
  LET initialLength == Len(inv)
      k == find(inv, id)
      inv2 == filter(inv, id)
  IN IF Len(inv2) = initialLength
     THEN [inv |-> inv2, files |-> fs, resp |-> Response("delete", id, 404)]
     ELSE IF k # 0 /\ inv[k].photo_path # Null
          THEN LET u == unlinkSync(fs, inv[k].photo_path, eperm)
               IN [inv |-> inv2, files |-> u.files,
                   resp |-> [Response("delete", id, 200) EXCEPT !.threw = u.threw]]
          ELSE [inv |-> inv2, files |-> fs, resp |-> Response("delete", id, 200)]

\* app.get('/inventory/:id/photo') up to the call of res.sendFile:
\* file # Null means sendFile(filePath) was started and no response written
getPhoto(inv, fs, id) ==
  LET k == find(inv, id)
  IN IF k = 0 \/ (k # 0 /\ inv[k].photo_path = Null)
     THEN [file |-> Null, resp |-> Response("photo", id, 404)]
     ELSE IF ~existsSync(fs, inv[k].photo_path)
          THEN [file |-> Null, resp |-> Response("photo", id, 404)]
          ELSE [file |-> inv[k].photo_path, resp |-> NoResponse]

\* res.sendFile(filePath, cb): streams the file, or calls cb(err) when the
\* file is gone, and cb answers 500
sendFile(fs, id, f) ==
  IF f \in fs
  THEN [Response("photo", id, 200) EXCEPT !.file = f]
  ELSE Response("photo", id, 500)

\* app.put('/inventory/:id/photo') after upload.single
replacePhoto(inv, fs, id, file, eperm) ==
  LET k == find(inv, id)
  IN IF k = 0
     THEN [inv |-> inv, files |-> fs, resp |-> Response("replace", id, 404)]
     ELSE LET u == IF inv[k].photo_path # Null
                   THEN unlinkSync(fs, inv[k].photo_path, eperm)
                   ELSE [files |-> fs, threw |-> FALSE]
          IN [inv |-> [inv EXCEPT ![k].photo_path = file],
              files |-> u.files,
              resp |-> [Response("replace", id, 200)
                          EXCEPT !.photo_link = id, !.threw = u.threw]]

\* (variant: photo_link is added whenever the item has a photo)
searchItemAnyPhoto(inv, hasId, id, has_photo) ==
  IF ~hasId THEN Response("search", 0, 400)
  ELSE LET k == find(inv, id)
       IN IF k = 0 THEN Response("search", id, 404)
          ELSE LET base == [Response("search", id, 200)
                              EXCEPT !.updated = <<[inv[k] EXCEPT !.photo_path = Null]>>]
               IN IF inv[k].photo_path # Null
                  THEN [base EXCEPT !.photo_link = id, !.has_link = TRUE]
                  ELSE base

\* app.post('/search'); hasId is FALSE for a missing or empty id field
searchItem(inv, hasId, id, has_photo) ==
  IF ~hasId THEN Response("search", 0, 400)
  ELSE LET k == find(inv, id)
       IN IF k = 0 THEN Response("search", id, 404)
          ELSE LET base == [Response("search", id, 200)
                              EXCEPT !.updated = <<[inv[k] EXCEPT !.photo_path = Null]>>]
               IN IF has_photo = Str("on") /\ inv[k].photo_path # Null
                  THEN [base EXCEPT !.photo_link = id, !.has_link = TRUE]
                  ELSE base

Init ==
  /\ INVENTORY = <<>>
  /\ files = {}
  /\ ids = 0
  /\ names = 0
  /\ reqs = [s \in Slots |-> Idle]
  /\ last = NoResponse
  /\ registered = <<>>
  /\ deleted = {}

\* ---------------------------------------------------------------- actions
\* a new request takes the first free slot (the slots are interchangeable)
free(s) == reqs[s].pc = "idle" /\ \A t \in 1..(s-1) : reqs[t].pc # "idle"

\* POST /register: upload.single('photo') finishes
ReceiveRegister(s, hasFile) ==
  /\ free(s)
  /\ hasFile => names < MaxFiles
  /\ LET m == diskStorage(files, names, hasFile)
     IN /\ files' = m.files
        /\ names' = m.names
        /\ reqs' = [reqs EXCEPT ![s] = [pc |-> "handler", op |-> "register",
                      id |-> 0, file |-> m.file, rebound |-> FALSE]]
  /\ UNCHANGED <<INVENTORY, ids, last, registered, deleted>>

\* POST /register: the route handler
Register(s, name, desc) ==
  /\ reqs[s].pc = "handler" /\ reqs[s].op = "register"
  /\ Truthy(name) => ids < MaxItems
  /\ LET r == registerItem(INVENTORY, ids,
                           name, desc, reqs[s].file)
     IN /\ INVENTORY' = commit(INVENTORY, r.inv, reqs[s].rebound)
        /\ ids' = r.ids
        /\ last' = [Logged(r.resp) EXCEPT !.file = reqs[s].file,
                      !.raced = reqs[s].rebound]
        /\ registered' = IF r.resp.status = 201
                         THEN Append(registered, r.resp.id) ELSE registered
  /\ reqs' = [reqs EXCEPT ![s] = Idle]
  /\ UNCHANGED <<files, names, deleted>>

\* GET /inventory
List ==
  /\ last' = Logged(listItems(INVENTORY))
  /\ UNCHANGED <<INVENTORY, files, ids, names, reqs, registered, deleted>>

\* GET /inventory/:id
Get(id) ==
  /\ last' = Logged(getItem(INVENTORY, id))
  /\ UNCHANGED <<INVENTORY, files, ids, names, reqs, registered, deleted>>

\* PUT /inventory/:id: express.json() finishes
ReceiveUpdate(s) ==
  /\ free(s)
  /\ reqs' = [reqs EXCEPT ![s] = [pc |-> "handler", op |-> "update",
                id |-> 0, file |-> Null, rebound |-> FALSE]]
  /\ UNCHANGED <<INVENTORY, files, ids, names, last, registered, deleted>>

\* PUT /inventory/:id: the route handler
Update(s, id, name, desc) ==
  /\ reqs[s].pc = "handler" /\ reqs[s].op = "update"
  /\ LET r == updateItem(INVENTORY, id, name, desc)
     IN /\ INVENTORY' = commit(INVENTORY, r.inv, reqs[s].rebound)
        /\ last' = [Logged(r.resp) EXCEPT !.raced = reqs[s].rebound]
  /\ reqs' = [reqs EXCEPT ![s] = Idle]
  /\ UNCHANGED <<files, ids, names, registered, deleted>>

\* DELETE /inventory/:id
Delete(id, eperm, track) ==
  /\ LET r == deleteItem(INVENTORY, files, id, eperm)
     IN /\ INVENTORY' = r.inv
        /\ files' = r.files
        /\ last' = Logged(r.resp)
        /\ deleted' = IF r.resp.status = 200 THEN deleted \cup {id} ELSE deleted
  /\ reqs' = rebind(reqs, track)
  /\ UNCHANGED <<ids, names, registered>>

\* GET /inventory/:id/photo: the route handler
Photo(s, id) ==
  /\ free(s)
  /\ LET r == getPhoto(INVENTORY, files, id)
     IN IF r.file = Null
        THEN /\ last' = Logged(r.resp)
             /\ UNCHANGED reqs
        ELSE /\ reqs' = [reqs EXCEPT ![s] = [pc |-> "sending", op |-> "photo",
                           id |-> id, file |-> r.file, rebound |-> FALSE]]
             /\ UNCHANGED last
  /\ UNCHANGED <<INVENTORY, files, ids, names, registered, deleted>>

\* GET /inventory/:id/photo: res.sendFile completes
SendFile(s) ==
  /\ reqs[s].pc = "sending"
  /\ last' = Logged(sendFile(files, reqs[s].id, reqs[s].file))
  /\ reqs' = [reqs EXCEPT ![s] = Idle]
  /\ UNCHANGED <<INVENTORY, files, ids, names, registered, deleted>>

\* PUT /inventory/:id/photo: upload.single('photo') finishes
ReceiveReplace(s, hasFile) ==
  /\ free(s)
  /\ hasFile => names < MaxFiles
  /\ LET m == diskStorage(files, names, hasFile)
     IN /\ files' = m.files
        /\ names' = m.names
        /\ reqs' = [reqs EXCEPT ![s] = [pc |-> "handler", op |-> "replace",
                      id |-> 0, file |-> m.file, rebound |-> FALSE]]
  /\ UNCHANGED <<INVENTORY, ids, last, registered, deleted>>

\* PUT /inventory/:id/photo: the route handler
Replace(s, id, eperm) ==
  /\ reqs[s].pc = "handler" /\ reqs[s].op = "replace"
  /\ LET r == replacePhoto(INVENTORY, files,
                           id, reqs[s].file, eperm)
     IN /\ INVENTORY' = commit(INVENTORY, r.inv, reqs[s].rebound)
        /\ files' = r.files
        /\ last' = [Logged(r.resp) EXCEPT !.file = reqs[s].file,
                      !.raced = reqs[s].rebound]
  /\ reqs' = [reqs EXCEPT ![s] = Idle]
  /\ UNCHANGED <<ids, names, registered, deleted>>

\* POST /search
Search(hasId, id, has_photo) ==
  /\ last' = Logged(searchItem(INVENTORY, hasId, id, has_photo))
  /\ UNCHANGED <<INVENTORY, files, ids, names, reqs, registered, deleted>>

\* a file of the cache directory is removed from outside the service
ExternalRemove(f) ==
  /\ f \in files
  /\ files' = files \ {f}
  /\ UNCHANGED <<INVENTORY, ids, names, reqs, last, registered, deleted>>

\* ------------------------------------------------------- specifications
\* The routes are explored in four slices of the request space, all over
\* the same actions.
\*
\* Spec: every route of the item lifecycle; text fields take the values
\* that decide a branch (absent, empty, one name); files are removed only
\* by the service and unlinkSync does not fail.
Next ==
  \/ \E s \in Slots, hasFile \in BOOLEAN : ReceiveRegister(s, hasFile)
  \/ \E s \in Slots, name \in FormVals : Register(s, name, Undefined)
  \/ List
  \/ \E id \in Ids : Get(id)
  \/ \E s \in Slots : ReceiveUpdate(s)
  \/ \E s \in Slots, id \in Ids : Update(s, id, Str("a"), Undefined)
  \/ \E id \in Ids : Delete(id, FALSE, FALSE)
  \/ \E s \in Slots, id \in Ids : Photo(s, id)
  \/ \E s \in Slots : SendFile(s)
  \/ \E s \in Slots, hasFile \in BOOLEAN : ReceiveReplace(s, hasFile)
  \/ \E s \in Slots, id \in Ids : Replace(s, id, FALSE)
  \/ \E id \in Ids, has_photo \in HasPhotoVals : Search(TRUE, id, has_photo)
  \/ \E has_photo \in HasPhotoVals : Search(FALSE, 0, has_photo)

Spec == Init /\ [][Next]_vars

\* SpecFiles: the routes that touch the cache directory, with files removed
\* from outside and unlinkSync failing.
NextFiles ==
  \/ \E s \in Slots, hasFile \in BOOLEAN : ReceiveRegister(s, hasFile)
  \/ \E s \in Slots : Register(s, Str("a"), Undefined)
  \/ \E id \in Ids, eperm \in BOOLEAN : Delete(id, eperm, FALSE)
  \/ \E s \in Slots, id \in Ids : Photo(s, id)
  \/ \E s \in Slots : SendFile(s)
  \/ \E s \in Slots, hasFile \in BOOLEAN : ReceiveReplace(s, hasFile)
  \/ \E s \in Slots, id \in Ids, eperm \in BOOLEAN : Replace(s, id, eperm)
  \/ \E f \in Files : ExternalRemove(f)

SpecFiles == Init /\ [][NextFiles]_vars

\* SpecFields: the routes that write inventory_name and description, over
\* every kind of value a JSON body field can hold; registrations carry a
\* name (rejected ones are explored in Spec).
NextFields ==
  \/ \E s \in Slots, hasFile \in BOOLEAN : ReceiveRegister(s, hasFile)
  \/ \E s \in Slots, desc \in FormDescVals : Register(s, Str("a"), desc)
  \/ \E s \in Slots : ReceiveUpdate(s)
  \/ \E s \in Slots, id \in Ids, name \in JsonVals, desc \in JsonDescVals :
       Update(s, id, name, desc)

SpecFields == Init /\ [][NextFields]_vars

\* SpecConc: the four mutating routes, with requests in flight together and
\* the history of INVENTORY being rebound under a pending request.
NextConc ==
  \/ \E s \in Slots, hasFile \in BOOLEAN : ReceiveRegister(s, hasFile)
  \/ \E s \in Slots : Register(s, Str("a"), Undefined)
  \/ \E s \in Slots : ReceiveUpdate(s)
  \/ \E s \in Slots, id \in Ids : Update(s, id, Str("b"), Str("d"))
  \/ \E id \in Ids : Delete(id, FALSE, TRUE)
  \/ \E s \in Slots, hasFile \in BOOLEAN : ReceiveReplace(s, hasFile)
  \/ \E s \in Slots, id \in Ids : Replace(s, id, FALSE)

SpecConc == Init /\ [][NextConc]_vars

\* ----------------------------------------------------------------- claims
liveIds == [i \in 1..Len(INVENTORY) |-> INVENTORY[i].id]

\* the step is the handler callback of the request pending in slot s
handled(s, op) ==
  reqs[s].pc = "handler" /\ reqs[s].op = op /\ reqs'[s].pc = "idle"

\* C1: the ids returned by 201 responses are pairwise distinct over the
\* whole run (deleted ones included), no two live items share an id, and
\* GET /inventory/:id answers 200 with the item for every returned id that
\* has not been deleted.
C1_UniqueResolvableIds ==
  /\ \A i, j \in 1..Len(registered) : i # j => registered[i] # registered[j]
  /\ \A i, j \in 1..Len(INVENTORY) : i # j => INVENTORY[i].id # INVENTORY[j].id
  /\ \A i \in 1..Len(registered) :
       registered[i] \notin deleted =>
         LET r == getItem(INVENTORY, registered[i])
         IN /\ r.status = 200
            /\ Len(r.items) = 1
            /\ r.items[1].item.id = registered[i]
            /\ \E k \in 1..Len(INVENTORY) : INVENTORY[k] = r.items[1].item
  /\ (last.op = "get" /\ \E i \in 1..Len(registered) :
        registered[i] = last.id /\ last.id \notin deleted)
       => last.status = 200 /\ last.items = <<last.id>>

\* two registrations, the first item deleted, and a GET of the second answered 200
C1_Witness ==
  /\ Len(registered) = 2
  /\ deleted = {registered[1]}
  /\ last.op = "get" /\ last.id = registered[2] /\ last.status = 200

\* C2: POST /register with a missing or empty inventory_name answers 400
\* and leaves INVENTORY (size, items, order) as it was, with or without a
\* photo part.
C2_RejectedRegisterAddsNothing ==
  [][\A s \in Slots :
       handled(s, "register") =>
         \A name \in {Undefined, Str("")}, desc \in FormDescVals :
           Register(s, name, desc) =>
             /\ last'.status = 400
             /\ INVENTORY' = INVENTORY]_vars

\* a register that carried a photo was answered 400 while an item existed
C2_Witness ==
  /\ last.op = "register" /\ last.status = 400 /\ last.file # Null
  /\ Len(INVENTORY) = 1

\* C3: PUT /inventory/:id on an existing item changes inventory_name only
\* when the body carries a non-empty inventory_name, and description only
\* when it carries a non-empty description; an absent or empty field is a
\* no-op; id, photo_path, every other item, the order and the cache
\* directory stay as they were.
C3_PartialUpdate ==
  [][\A s \in Slots :
       handled(s, "update") =>
         \A k \in {find(INVENTORY, last'.id)} :
           k # 0 =>
             /\ last'.status = 200
             /\ Len(INVENTORY') = Len(INVENTORY)
             /\ \A j \in 1..Len(INVENTORY) :
                  j # k => INVENTORY'[j] = INVENTORY[j]
             /\ INVENTORY'[k].id = INVENTORY[k].id
             /\ INVENTORY'[k].photo_path = INVENTORY[k].photo_path
             /\ files' = files
             /\ \A name \in JsonVals, desc \in JsonDescVals :
                  Update(s, last'.id, name, desc) =>
                    /\ INVENTORY'[k].inventory_name # INVENTORY[k].inventory_name
                         => name \notin {Undefined, Str("")}
                    /\ INVENTORY'[k].description # INVENTORY[k].description
                         => desc \notin {Undefined, Str("")}
                    /\ name \in {Undefined, Str("")}
                         => INVENTORY'[k].inventory_name = INVENTORY[k].inventory_name
                    /\ desc \in {Undefined, Str("")}
                         => INVENTORY'[k].description = INVENTORY[k].description]_vars

\* an update answered 200 left two items, the second renamed by a PUT and
\* still holding its photo and its registered description
C3_Witness ==
  /\ last.op = "update" /\ last.status = 200
  /\ Len(INVENTORY) = 2
  /\ INVENTORY[2].id = last.id
  /\ INVENTORY[2].inventory_name = Str("b")
  /\ INVENTORY[2].description = Str("d")
  /\ INVENTORY[2].photo_path # Null

\* C4: once DELETE has answered 200 for an id, the id is never live again
\* and every request handled later for it (GET, GET photo, both PUTs,
\* DELETE, POST /search) answers 404.
C4_DeletedStaysGone ==
  [][/\ \A id \in deleted' : find(INVENTORY', id) = 0
     /\ \A id \in deleted :
          /\ Get(id) => last'.status = 404
          /\ (\E s \in Slots : Photo(s, id)) => last'.status = 404
          /\ \A s \in Slots :
               handled(s, "update") =>
                 \A name \in JsonVals, desc \in JsonDescVals :
                   Update(s, id, name, desc) => last'.status = 404
          /\ \A s \in Slots :
               handled(s, "replace") =>
                 \A eperm \in BOOLEAN :
                   Replace(s, id, eperm) => last'.status = 404
          /\ (\E eperm \in BOOLEAN : Delete(id, eperm, FALSE)) => last'.status = 404
          /\ (\E has_photo \in HasPhotoVals : Search(TRUE, id, has_photo))
               => last'.status = 404]_vars

\* an id was deleted, another item was registered afterwards, and a GET of
\* the deleted id answered 404
C4_Witness ==
  /\ Len(registered) = 2
  /\ deleted = {registered[1]}
  /\ Len(INVENTORY) = 1
  /\ last.op = "get" /\ last.id = registered[1] /\ last.status = 404

\* C5: GET /inventory/:id/photo answers 200 with the file, or 404 (no item,
\* no photo, file gone), and never 500, however the file removal
\* interleaves with the existence check and the send.
C5_PhotoNever500 ==
  last.op = "photo" =>
    \/ last.status = 200 /\ last.file # Null
    \/ last.status = 404

\* C6: PUT /inventory/:id/photo answered 200 sets photo_path to the file the
\* request stored and returns a photo_link under which the next GET serves
\* that file, also when the request carried no photo part.
C6_ReplaceInstallsPhoto ==
  [][\A s \in Slots :
       handled(s, "replace") =>
         \A id \in Ids, eperm \in BOOLEAN :
           (Replace(s, id, eperm) /\ last'.status = 200) =>
             LET g == getPhoto(INVENTORY', files', last'.photo_link)
             IN /\ INVENTORY'[find(INVENTORY', id)].photo_path = reqs[s].file
                /\ g.file # Null
                /\ g.file = reqs[s].file
                /\ sendFile(files', id, g.file).status = 200]_vars

\* C7: DELETE on an existing item removes the record and answers 200, and
\* PUT /inventory/:id/photo on an existing item answers 200 and installs
\* the new reference, whether or not unlinkSync threw.
C7_CleanupFailureSwallowed ==
  [][/\ \A id \in Ids, eperm \in BOOLEAN :
          (Delete(id, eperm, FALSE) /\ find(INVENTORY, id) # 0) =>
            /\ last'.status = 200
            /\ find(INVENTORY', id) = 0
            /\ Len(INVENTORY') = Len(INVENTORY) - 1
     /\ \A s \in Slots :
          handled(s, "replace") =>
            \A id \in Ids, eperm \in BOOLEAN :
              (Replace(s, id, eperm) /\ find(INVENTORY, id) # 0) =>
                /\ last'.status = 200
                /\ INVENTORY'[find(INVENTORY, id)].photo_path = reqs[s].file]_vars

\* a DELETE whose unlinkSync threw was answered 200 and the record is gone
C7_Witness ==
  /\ last.op = "delete" /\ last.threw /\ last.status = 200
  /\ find(INVENTORY, last.id) = 0
  /\ last.id \in deleted

C9_NameNonEmptyString ==
  \A i \in 1..Len(INVENTORY) :
    /\ INVENTORY[i].inventory_name.type = "string"
    /\ INVENTORY[i].inventory_name.val # ""

C11_SearchPhotoLink ==
  [][last'.op = "search" =>
       /\ \A has_photo \in HasPhotoVals :
            Search(FALSE, 0, has_photo) =>
              last'.status = 400 /\ ~last'.has_link
       /\ \A id \in Ids, has_photo \in HasPhotoVals :
            Search(TRUE, id, has_photo) =>
              \A k \in {find(INVENTORY, id)} :
                IF k = 0
                THEN last'.status = 404 /\ ~last'.has_link
                ELSE LET r == searchItem(INVENTORY, TRUE, id, has_photo)
                     IN /\ last'.status = 200
                        /\ last'.updated = <<id>>
                        /\ Len(r.updated) = 1
                        /\ r.updated[1].id = INVENTORY[k].id
                        /\ r.updated[1].inventory_name = INVENTORY[k].inventory_name
                        /\ r.updated[1].description = INVENTORY[k].description
                        /\ last'.has_link <=>
                             (has_photo = Str("on") /\ INVENTORY[k].photo_path # Null)
                        /\ last'.has_link => last'.photo_link = id]_vars

\* a search for an item that holds a photo was answered 200 without
\* photo_link
C11_Witness ==
  /\ last.op = "search" /\ last.status = 200 /\ ~last.has_link
  /\ find(INVENTORY, last.id) # 0
  /\ INVENTORY[find(INVENTORY, last.id)].photo_path # Null

\* C12: with no external change to the cache directory and no failing
\* unlinkSync, whenever no request is in flight the files of the cache
\* directory are exactly the files referenced by photo_path of live items,
\* each referenced by one item only.
C12_CacheMatchesInventory ==
  (\A s \in Slots : reqs[s].pc = "idle") =>
    /\ files = {INVENTORY[i].photo_path :
                  i \in {j \in 1..Len(INVENTORY) : INVENTORY[j].photo_path # Null}}
    /\ \A i, j \in 1..Len(INVENTORY) :
         (i # j /\ INVENTORY[i].photo_path # Null)
           => INVENTORY[i].photo_path # INVENTORY[j].photo_path

====
